---- MODULE Spec2Model ----
(***************************************************************************)
(* Model of src/predict.py: filter_segmentation, remove_overlaps and the   *)
(* post-processing part of Predictor.predict.                              *)
(*                                                                         *)
(* Mask candidates are Python dicts.  The code reads the keys bbox, area    *)
(* and predicted_iou (the docstrings of lines 16 and 33); the dicts that   *)
(* SamAutomaticMaskGenerator.generate returns (line 119) have, before      *)
(* these, the key segmentation, whose value is a numpy array.  The dicts   *)
(* are objects: the lists of the program hold references to them, so a     *)
(* list is a sequence of object identifiers and `heap` maps an identifier  *)
(* to the dict's current fields.  list.remove compares by value (==),      *)
(* which is why both distinctions matter: two distinct dicts without       *)
(* arrays can be equal, and comparing two distinct dicts with arrays       *)
(* raises ValueError (the truth value of an array is ambiguous).           *)
(*                                                                         *)
(* Areas and coordinates are integers.  The other numbers are Python       *)
(* floats (IEEE doubles) in the program.  Here they are rationals          *)
(* <<numerator, denominator>>, and the rounding of the doubles is modelled *)
(* where it changes a result: in int(y * (a / b)) and in the area bounds   *)
(* (sections Numbers and predict).  The integers are below 2^20.           *)
(***************************************************************************)
EXTENDS Integers, Sequences, FiniteSets, TLC

VARIABLES
    pc,                     \* position in the program
    heap,                   \* object id -> dict [segmentation, bbox, area, predicted_iou]
    produced,               \* the dicts as the mask generator returned them
    generated,              \* return of mask_generator.generate (list of ids)
    masks,                  \* the list `masks` (argument / local of predict)
    copy_,                  \* masks.copy() of line 37
    i,                      \* index of the outer loop of remove_overlaps
    tail,                   \* masks[i+1:].copy() of line 39
    j,                      \* index of the inner loop of remove_overlaps
    intersection_threshold, \* argument of remove_overlaps
    lower_size_threshold,   \* argument of filter_segmentation
    upper_size_threshold,   \* argument of filter_segmentation
    confidence_threshold,   \* argument of filter_segmentation
    decoded,                \* <<width, height>> of the image file
    resize_width,           \* input of predict
    image,                  \* <<width, height>> of the local `image`
    width,                  \* local of predict (line 112)
    height,                 \* local of predict (line 112)
    new_height,             \* local of predict (line 115)
    json_masks,             \* list of references to bbox lists (by owner id)
    n,                      \* number of json_masks already remapped
    output                  \* value returned by predict

vars == <<pc, heap, produced, generated, masks, copy_, i, tail, j,
          intersection_threshold, lower_size_threshold, upper_size_threshold,
          confidence_threshold, decoded, resize_width, image, width, height,
          new_height, json_masks, n, output>>

dedupVars == <<masks, copy_, i, tail, j>>
imageVars == <<decoded, resize_width, image, width, height, new_height>>
filterArgs == <<lower_size_threshold, upper_size_threshold, confidence_threshold>>

-----------------------------------------------------------------------------
(* Bounds of the model.                                                    *)

\* longest list handed to remove_overlaps on its own
MaxLen == 5
\* longest list handed to filter_segmentation on its own
MaxFilterLen == 4
\* longest list the mask generator returns in a run of predict
MaxRaw == 3

-----------------------------------------------------------------------------
(* Numbers.                                                                *)

Max2(a, b) == IF a >= b THEN a ELSE b
Min2(a, b) == IF a <= b THEN a ELSE b

\* a rational with a positive denominator
Norm(q) == IF q[2] < 0 THEN <<-q[1], -q[2]>> ELSE <<q[1], q[2]>>
\* <<num, den, 1>> is a double that lies above num / den by a rounding error, which
\* is less than the distance between two different rationals that are compared
Excess(q) == IF Len(q) > 2 THEN q[3] ELSE 0
\* a < b
RatLt(a, b) ==
    LET l == Norm(a)[1] * Norm(b)[2]
        r == Norm(b)[1] * Norm(a)[2]
    IN  l < r \/ (l = r /\ Excess(a) < Excess(b))
Rat(x) == <<x, 1>>

\* the e with 2^e <= a / b < 2^(e + 1), for a, b > 0
Exponent(a, b) ==
    LET RECURSIVE up(_)
        up(e) == IF b * 2^(e + 1) <= a THEN up(e + 1) ELSE e
        RECURSIVE down(_)
        down(t) == IF a * 2^t >= b THEN -t ELSE down(t + 1)
    IN  IF a >= b THEN up(0) ELSE down(1)

\* (r * 2^k) % b
Doubled(r, b, k) ==
    LET RECURSIVE loop(_, _)
        loop(rem, left) == IF left = 0 THEN rem ELSE loop((2 * rem) % b, left - 1)
    IN  loop(r, k)

\* int(y * (a / b)) for integers y >= 0, a >= 0, b > 0, computed in doubles as Python
\* does: q = a / b rounded to 53 bits (to nearest, ties to even), y * q rounded again,
\* int() truncates.  When y * a / b is not an integer the result is its floor.  When
\* it is an integer N, the result is N - 1 if q was rounded down by so much that
\* y * q is nearer to the double below N than to N, and N otherwise.
\* With k = 52 - Exponent(a, b), the 53-bit quotient is (a * 2^k) \div b, rem0 is
\* the remainder of that division, and q is a / b - rem0 / (b * 2^k) if rounded down.
TruncProduct(y, a, b) ==
    LET N == (y * a) \div b
        k == 52 - Exponent(a, b)
        before == Doubled(a % b, b, k - 1)
        rem0 == (2 * before) % b
        odd == (2 * before) \div b = 1
        roundedUp == 2 * rem0 > b \/ (2 * rem0 = b /\ odd)
        eN == Exponent(N, 1)
        \* 4 * b * 2^k times half the distance from N to the double below it
        half == IF N = 2^eN THEN b * 2^(eN - Exponent(a, b))
                ELSE b * 2^(eN - Exponent(a, b) + 1)
    IN  IF (y * a) % b # 0 \/ N = 0 THEN N
        ELSE IF rem0 = 0 \/ roundedUp THEN N
        ELSE IF 4 * y * rem0 > half THEN N - 1
        ELSE N

\* int(y * (a / b)) for any integer y
PyInt(y, a, b) == IF y >= 0 THEN TruncProduct(y, a, b) ELSE -TruncProduct(-y, a, b)

Ids(len) == [p \in 1..len |-> p]
\* the value of the key segmentation: a numpy array of the dict's own, or no such key
Segmentations == {"ndarray", "absent"}
\* the dicts of S of one kind
OfKind(S, s) == {d \in S : d.segmentation = s}
Lists(S, len) == UNION {[1..m -> S] : m \in 0..len}
Range(s) == {s[p] : p \in 1..Len(s)}

-----------------------------------------------------------------------------
(* filter_segmentation, lines 12-27.                                       *)

\* line 25 with lower <= area in place of lower < area
KeepLowerInclusive(mask, lower, upper, threshold) ==
    /\ ~RatLt(Rat(mask.area), lower)
    /\ RatLt(Rat(mask.area), upper)
    /\ RatLt(threshold, mask.predicted_iou)

\* line 25: lower < area < upper and confidence > confidence_threshold
Keep(mask, lower, upper, threshold) ==
    /\ RatLt(lower, Rat(mask.area))
    /\ RatLt(Rat(mask.area), upper)
    /\ RatLt(threshold, mask.predicted_iou)

\* lines 21-27: the loop that appends the kept masks, in order
filter_segmentation(ms, lower, upper, threshold) ==
    LET RECURSIVE loop(_, _)
        loop(p, filtered_masks) ==
            IF p > Len(ms) THEN filtered_masks
            ELSE loop(p + 1, IF Keep(heap[ms[p]], lower, upper, threshold)
                             THEN Append(filtered_masks, ms[p])
                             ELSE filtered_masks)
    IN  loop(1, <<>>)

\* the call of filter_segmentation (line 125): masks is bound to the returned list
FilterSeg ==
    /\ pc = "filter_segmentation"
    /\ masks' = filter_segmentation(masks, lower_size_threshold, upper_size_threshold,
                                    confidence_threshold)
    /\ pc' = "filtered"
    /\ UNCHANGED <<heap, produced, generated, copy_, i, tail, j, intersection_threshold,
                   filterArgs, imageVars, json_masks, n, output>>

-----------------------------------------------------------------------------
(* remove_overlaps, lines 29-68.                                           *)

\* lines 44-46 (bbox[0..3] of Python are bbox[1..4] here)
x_overlap(bbox1, bbox2) ==
    Max2(0, Min2(bbox1[3], bbox2[3]) - Max2(bbox1[1], bbox2[1]))
y_overlap(bbox1, bbox2) ==
    Max2(0, Min2(bbox1[4], bbox2[4]) - Max2(bbox1[2], bbox2[2]))
overlap_area(bbox1, bbox2) == x_overlap(bbox1, bbox2) * y_overlap(bbox1, bbox2)

\* line 53: overlap_area / min(bbox1_area, bbox2_area), when the minimum is not 0
overlap_percentage(d1, d2) ==
    <<overlap_area(d1.bbox, d2.bbox), Min2(d1.area, d2.area)>>

\* line 53 raises ZeroDivisionError
DivisionByZero(d1, d2) == Min2(d1.area, d2.area) = 0

\* line 55 with >= in place of >
ExceedsOrEquals(d1, d2, threshold) ==
    ~RatLt(overlap_percentage(d1, d2), threshold)

\* line 55: overlap_percentage > intersection_threshold
Exceeds(d1, d2, threshold) == RatLt(threshold, overlap_percentage(d1, d2))

\* line 56: dict1['area'] < dict2['area']
FirstIsSmaller(d1, d2) == d1.area < d2.area

\* line 39: masks[i+1:] (Python index idx is position idx + 1 here)
SliceFrom(list, idx) == SubSeq(list, idx + 2, Len(list))

\* a == b for two dicts raises ValueError: they are different objects and both
\* have the key segmentation, the first key that is compared, with an array each
CompareRaises(a, b) ==
    /\ a # b
    /\ heap[a].segmentation = "ndarray"
    /\ heap[b].segmentation = "ndarray"

\* a == b as list.remove evaluates it: the same object, or equal keys and values
DictEq(a, b) == a = b \/ (~CompareRaises(a, b) /\ heap[a] = heap[b])

\* list.remove(x) compares the elements with x from the front and removes the first
\* that is equal.  The position of that element, or 0 when list.remove raises
\* ValueError: a comparison before that position raised, or no element is equal.
IndexOf(list, x) ==
    IF \E p \in 1..Len(list) :
          /\ DictEq(list[p], x)
          /\ \A q \in 1..(p - 1) : ~CompareRaises(list[q], x)
    THEN CHOOSE p \in 1..Len(list) :
            /\ DictEq(list[p], x)
            /\ \A q \in 1..(p - 1) : ~DictEq(list[q], x)
    ELSE 0

\* the list after list.remove(x) succeeded
Removed(list, x) ==
    SubSeq(list, 1, IndexOf(list, x) - 1)
        \o SubSeq(list, IndexOf(list, x) + 1, Len(list))

\* line 37: masks.copy(), before the first iteration
Snapshot ==
    /\ pc = "remove_overlaps"
    /\ copy_' = masks
    /\ i' = 0
    /\ pc' = "outer"
    /\ UNCHANGED <<heap, produced, generated, masks, tail, j, intersection_threshold,
                   filterArgs, imageVars, json_masks, n, output>>

\* lines 37 and 39: the next dict1, and the copy of the live list's slice
OuterStep ==
    /\ pc = "outer"
    /\ i < Len(copy_)
    /\ tail' = SliceFrom(masks, i)
    /\ j' = i + 1
    /\ pc' = "inner"
    /\ UNCHANGED <<heap, produced, generated, masks, copy_, i, intersection_threshold,
                   filterArgs, imageVars, json_masks, n, output>>

\* line 68: the outer loop is exhausted
OuterDone ==
    /\ pc = "outer"
    /\ i >= Len(copy_)
    /\ pc' = "deduplicated"
    /\ UNCHANGED <<heap, produced, generated, dedupVars, intersection_threshold,
                   filterArgs, imageVars, json_masks, n, output>>

\* line 39: the inner loop is exhausted
InnerDone ==
    /\ pc = "inner"
    /\ j - i > Len(tail)
    /\ i' = i + 1
    /\ pc' = "outer"
    /\ UNCHANGED <<heap, produced, generated, masks, copy_, tail, j,
                   intersection_threshold, filterArgs, imageVars, json_masks, n, output>>

\* lines 40-66: one iteration of the inner loop
Compare ==
    /\ pc = "inner"
    /\ j - i <= Len(tail)
    /\ LET dict1 == copy_[i + 1]
           dict2 == tail[j - i]
       IN  IF DivisionByZero(heap[dict1], heap[dict2])
           THEN /\ pc' = "ZeroDivisionError"
                /\ UNCHANGED <<masks, i, j>>
           ELSE IF ~Exceeds(heap[dict1], heap[dict2], intersection_threshold)
           THEN /\ j' = j + 1
                /\ UNCHANGED <<pc, masks, i>>
           ELSE IF FirstIsSmaller(heap[dict1], heap[dict2])
           THEN IF IndexOf(masks, dict1) # 0
                THEN \* lines 58-59: removed, break
                     /\ masks' = Removed(masks, dict1)
                     /\ i' = i + 1
                     /\ pc' = "outer"
                     /\ UNCHANGED j
                ELSE \* lines 60-61: ValueError, pass
                     /\ j' = j + 1
                     /\ UNCHANGED <<pc, masks, i>>
           ELSE \* lines 63-66
                /\ masks' = IF IndexOf(masks, dict2) # 0
                            THEN Removed(masks, dict2) ELSE masks
                /\ j' = j + 1
                /\ UNCHANGED <<pc, i>>
    /\ UNCHANGED <<heap, produced, generated, copy_, tail, intersection_threshold,
                   filterArgs, imageVars, json_masks, n, output>>

-----------------------------------------------------------------------------
(* Predictor.predict, lines 108-143.                                       *)

\* line 114
new_width == 512

\* line 108: cv2.imread
Imread ==
    /\ pc = "imread"
    /\ image' = decoded
    /\ pc' = "imutils.resize"
    /\ UNCHANGED <<heap, produced, generated, dedupVars, intersection_threshold,
                   filterArgs, decoded, resize_width, width, height, new_height,
                   json_masks, n, output>>

\* line 109: imutils.resize(image, width=resize_width) keeps the aspect ratio,
\* the new height is int(h * (resize_width / float(w)))
ImutilsResize ==
    /\ pc = "imutils.resize"
    /\ image' = <<resize_width, PyInt(image[2], resize_width, image[1])>>
    /\ pc' = "cv2.resize"
    /\ UNCHANGED <<heap, produced, generated, dedupVars, intersection_threshold,
                   filterArgs, decoded, resize_width, width, height, new_height,
                   json_masks, n, output>>

\* lines 112-117
Cv2Resize ==
    /\ pc = "cv2.resize"
    /\ width' = image[1]
    /\ height' = image[2]
    /\ new_height' = PyInt(new_width, image[2], image[1])
    /\ image' = <<new_width, new_height'>>
    /\ pc' = "generate"
    /\ UNCHANGED <<heap, produced, generated, dedupVars, intersection_threshold,
                   filterArgs, decoded, resize_width, json_masks, n, output>>

\* line 119: the mask generator returns its list
Generate ==
    /\ pc = "generate"
    /\ masks' = generated
    /\ pc' = "area bounds"
    /\ UNCHANGED <<heap, produced, generated, copy_, i, tail, j, intersection_threshold,
                   filterArgs, imageVars, json_masks, n, output>>

\* lines 122-124, and the default confidence_threshold=0.9 of line 12.
\* 0.05 ** 2 is the double 0.0025000000000000005 and 0.8 ** 2 is 0.6400000000000001,
\* above 1/400 and 16/25 by 0.87 of a rounding step, so each product is a double
\* above image_area / 400 and image_area * 16 / 25: 512 * 400 * (0.8 ** 2) is
\* 131072.00000000003
AreaBounds ==
    /\ pc = "area bounds"
    /\ LET image_area == image[2] * image[1]
       IN  /\ lower_size_threshold' = <<image_area, 400, 1>>
           /\ upper_size_threshold' = <<image_area * 16, 25, 1>>
    /\ confidence_threshold' = <<9, 10>>
    /\ pc' = "filter_segmentation"
    /\ UNCHANGED <<heap, produced, generated, dedupVars, intersection_threshold,
                   imageVars, json_masks, n, output>>

\* line 126: remove_overlaps(masks, 0.01)
CallRemoveOverlaps ==
    /\ pc = "filtered"
    /\ intersection_threshold' = <<1, 100>>
    /\ pc' = "remove_overlaps"
    /\ UNCHANGED <<heap, produced, generated, dedupVars, filterArgs, imageVars,
                   json_masks, n, output>>

\* lines 130-132: json_masks holds the bbox lists of the masks themselves
Extract ==
    /\ pc = "deduplicated"
    /\ json_masks' = masks
    /\ n' = 0
    /\ pc' = "remap"
    /\ UNCHANGED <<heap, produced, generated, dedupVars, intersection_threshold,
                   filterArgs, imageVars, output>>

\* lines 136 and 138: int(x * (width / new_width))
ScaleX(x) == PyInt(x, width, new_width)
\* lines 137 and 139: int(y * (height / new_height))
ScaleY(y) == PyInt(y, height, new_height)
Scaled(bbox) == <<ScaleX(bbox[1]), ScaleY(bbox[2]), ScaleX(bbox[3]), ScaleY(bbox[4])>>

\* the item assignments of lines 136-139, were json_mask a copy of the bbox list
AssignedToCopy(h, owner, bbox) == h

\* the item assignments of lines 136-139 write into the list json_mask refers to,
\* which is the bbox list of the mask it was taken from
Assigned(h, owner, bbox) == [h EXCEPT ![owner].bbox = bbox]

\* lines 135-139: one iteration
Remap ==
    /\ pc = "remap"
    /\ n < Len(json_masks)
    /\ heap' = Assigned(heap, json_masks[n + 1], Scaled(heap[json_masks[n + 1]].bbox))
    /\ n' = n + 1
    /\ UNCHANGED <<pc, produced, generated, dedupVars, intersection_threshold,
                   filterArgs, imageVars, json_masks, output>>

\* json.dumps of a list of ints
DumpInts(list) ==
    LET RECURSIVE items(_)
        items(p) == IF p > Len(list) THEN ""
                    ELSE (IF p > 1 THEN ", " ELSE "") \o ToString(list[p]) \o items(p + 1)
    IN  "[" \o items(1) \o "]"

\* json.dumps of a list of lists of ints
json_dumps(lists) ==
    LET RECURSIVE items(_)
        items(p) == IF p > Len(lists) THEN ""
                    ELSE (IF p > 1 THEN ", " ELSE "") \o DumpInts(lists[p]) \o items(p + 1)
    IN  "[" \o items(1) \o "]"

\* lines 141-143: json_mask is the variable of the loop of line 135, unbound when
\* the loop had nothing to iterate over
PrintAndReturn ==
    /\ pc = "remap"
    /\ n >= Len(json_masks)
    /\ IF json_masks = <<>>
       THEN /\ pc' = "UnboundLocalError"
            /\ UNCHANGED output
       ELSE /\ output' = json_dumps([p \in 1..Len(json_masks) |-> heap[json_masks[p]].bbox])
            /\ pc' = "returned"
    /\ UNCHANGED <<heap, produced, generated, dedupVars, intersection_threshold,
                   filterArgs, imageVars, json_masks, n>>

-----------------------------------------------------------------------------
(* remove_overlaps on its own: any list of at most MaxLen candidates with  *)
(* a positive area, in any order, all with or all without the key          *)
(* segmentation, and a threshold.                                          *)

BoxA == <<0, 0, 10, 10>>
BoxB == <<5, 5, 15, 15>>
BoxC == <<12, 12, 22, 22>>

DedupCandidates ==
    [segmentation : Segmentations, bbox : {BoxA, BoxB, BoxC}, area : {50, 100},
     predicted_iou : {<<95, 100>>}]

DedupThresholds == {<<1, 100>>, <<1, 2>>}

DedupInit ==
    /\ pc = "remove_overlaps"
    /\ \E s \in Segmentations : heap \in Lists(OfKind(DedupCandidates, s), MaxLen)
    /\ produced = heap
    /\ generated = Ids(Len(heap))
    /\ masks = Ids(Len(heap))
    /\ intersection_threshold \in DedupThresholds
    /\ copy_ = <<>> /\ i = 0 /\ tail = <<>> /\ j = 0
    /\ lower_size_threshold = <<0, 1>>
    /\ upper_size_threshold = <<0, 1>>
    /\ confidence_threshold = <<0, 1>>
    /\ decoded = <<0, 0>> /\ resize_width = 0 /\ image = <<0, 0>>
    /\ width = 0 /\ height = 0 /\ new_height = 0
    /\ json_masks = <<>> /\ n = 0 /\ output = ""

DedupNext == Snapshot \/ OuterStep \/ Compare \/ InnerDone \/ OuterDone

DedupSpec == DedupInit /\ [][DedupNext]_vars

-----------------------------------------------------------------------------
(* Properties of remove_overlaps (checked under DedupSpec).                *)

Returned == pc = "deduplicated"

\* the dicts a list refers to
ValuesOf(list) == [p \in 1..Len(list) |-> heap[list[p]]]

\* overlap_area / min(area_1, area_2) > t, for positive areas and t = t[1] / t[2], t[2] > 0
RatioAbove(d1, d2, t) ==
    overlap_area(d1.bbox, d2.bbox) * t[2] > t[1] * Min2(d1.area, d2.area)
RatioEquals(d1, d2, t) ==
    overlap_area(d1.bbox, d2.bbox) * t[2] = t[1] * Min2(d1.area, d2.area)

\* some pair of the input is above the threshold
InputOverlaps ==
    \E p, q \in 1..Len(copy_) :
        p < q /\ RatioAbove(heap[copy_[p]], heap[copy_[q]], intersection_threshold)

\* list a is list b with some elements left out (the elements of b are distinct objects)
IsSubSeq(a, b) ==
    /\ Range(a) \subseteq Range(b)
    /\ \A p, q \in 1..Len(a) :
          p < q => \E r, u \in 1..Len(b) : r < u /\ b[r] = a[p] /\ b[u] = a[q]

MaxArea(list) ==
    CHOOSE a \in {heap[list[p]].area : p \in 1..Len(list)} :
        \A p \in 1..Len(list) : heap[list[p]].area <= a

\* C1: after remove_overlaps(masks, t) returns, with t >= 0, no two candidates of the
\* returned list have overlap_area / min(area_1, area_2) > t.
C1_NonRedundant ==
    (Returned /\ intersection_threshold[1] >= 0) =>
        \A p, q \in 1..Len(masks) :
            p < q => ~RatioAbove(heap[masks[p]], heap[masks[q]], intersection_threshold)

\* C2: a comparison whose first element (dict1, from the snapshot) has been removed
\* from the live list (the live list holds neither it nor a dict with its values)
\* leaves the live list as it is.
C2_RemovedFirstIsInert ==
    [][(/\ pc = "inner"
        /\ j - i <= Len(tail)
        /\ \A p \in 1..Len(masks) :
              masks[p] # copy_[i + 1] /\ heap[masks[p]] # heap[copy_[i + 1]])
          => masks' = masks]_vars

\* C6: of two candidates whose overlap ratio is above the threshold, exactly one is
\* returned: the one with the strictly larger area, and the first one when the areas
\* are equal.
C6_TwoCandidates ==
    (/\ Returned
     /\ Len(copy_) = 2
     /\ RatioAbove(heap[copy_[1]], heap[copy_[2]], intersection_threshold))
    => ValuesOf(masks) = IF heap[copy_[2]].area > heap[copy_[1]].area
                         THEN <<heap[copy_[2]]>>
                         ELSE <<heap[copy_[1]]>>

\* C7: when no pair of the input has an overlap ratio above the threshold, the input
\* list is returned with nothing removed.
C7_NothingRemoved ==
    (Returned /\ ~InputOverlaps) => masks = copy_

\* three candidates, one pair exactly at the threshold, none above it: all are returned
C7_Witness ==
    /\ Returned
    /\ Len(copy_) = 3
    /\ ~InputOverlaps
    /\ \E p, q \in 1..Len(copy_) :
          /\ p < q
          /\ overlap_area(heap[copy_[p]].bbox, heap[copy_[q]].bbox) > 0
          /\ RatioEquals(heap[copy_[p]], heap[copy_[q]], intersection_threshold)
    /\ Len(masks) = 3

\* C10: a non-empty input gives a non-empty sub-sequence of the input that holds a
\* candidate whose area is the largest area of the input.
C10_KeepsALargest ==
    (Returned /\ copy_ # <<>>) =>
        /\ masks # <<>>
        /\ IsSubSeq(masks, copy_)
        /\ \E p \in 1..Len(masks) : heap[masks[p]].area = MaxArea(copy_)

-----------------------------------------------------------------------------
(* filter_segmentation on its own: any list of at most MaxFilterLen         *)
(* candidates, and bounds with lower < upper.                              *)

FilterCandidates ==
    [segmentation : Segmentations, bbox : {BoxA}, area : {100, 200, 300, 400},
     predicted_iou : {<<90, 100>>, <<95, 100>>}]

FilterInit ==
    /\ pc = "filter_segmentation"
    /\ \E s \in Segmentations : heap \in Lists(OfKind(FilterCandidates, s), MaxFilterLen)
    /\ produced = heap
    /\ generated = Ids(Len(heap))
    /\ masks = Ids(Len(heap))
    /\ lower_size_threshold \in {<<100, 1>>, <<200, 1>>}
    /\ upper_size_threshold \in {<<300, 1>>, <<400, 1>>}
    /\ confidence_threshold \in {<<9, 10>>, <<1, 2>>}
    /\ intersection_threshold = <<1, 2>>
    /\ copy_ = <<>> /\ i = 0 /\ tail = <<>> /\ j = 0
    /\ decoded = <<0, 0>> /\ resize_width = 0 /\ image = <<0, 0>>
    /\ width = 0 /\ height = 0 /\ new_height = 0
    /\ json_masks = <<>> /\ n = 0 /\ output = ""

FilterNext == FilterSeg

FilterSpec == FilterInit /\ [][FilterNext]_vars

\* lower < area < upper and confidence > c, for positive denominators
StrictlyInside(d) ==
    /\ lower_size_threshold[1] < d.area * lower_size_threshold[2]
    /\ d.area * upper_size_threshold[2] < upper_size_threshold[1]
    /\ d.predicted_iou[1] * confidence_threshold[2]
          > confidence_threshold[1] * d.predicted_iou[2]

\* C5: filter_segmentation returns the candidates with lower < area < upper and
\* confidence > c, all strict, each once and in their original order.
C5_StrictFilter ==
    pc = "filtered" =>
        /\ IsSubSeq(masks, generated)
        /\ Cardinality(Range(masks)) = Len(masks)
        /\ \A id \in Range(generated) : id \in Range(masks) <=> StrictlyInside(heap[id])

\* candidates on each of the three boundaries are left out, one strictly inside is kept
C5_Witness ==
    /\ pc = "filtered"
    /\ \E a, b, c, d \in Range(generated) :
          /\ Rat(heap[a].area) = lower_size_threshold
          /\ heap[a].predicted_iou = <<95, 100>>
          /\ Rat(heap[b].area) = upper_size_threshold
          /\ heap[b].predicted_iou = <<95, 100>>
          /\ heap[c].predicted_iou = <<90, 100>> /\ confidence_threshold = <<9, 10>>
          /\ StrictlyInside([heap[c] EXCEPT !.predicted_iou = <<95, 100>>])
          /\ masks = <<d>>

-----------------------------------------------------------------------------
(* A run of predict: an image file, resize_width, and the list the mask    *)
(* generator returns for it (at most MaxRaw candidates).                   *)

\* <<decoded size, resize_width>>: sizes whose scale factors are exact, one whose
\* height / new_height is 2.01, one whose upper area bound is above an integer by a
\* rounding error, and one whose resize_width / w is 33.3
Images ==
    {<<<<1024, 512>>, 1024>>, <<<<2048, 2048>>, 768>>, <<<<1024, 201>>, 1024>>,
     <<<<1024, 800>>, 1024>>, <<<<10, 50>>, 333>>}

\* <<bbox, area, predicted_iou>>
ModelValues ==
    { <<<<0, 0, 100, 100>>,     9000,   <<95, 100>>>>,
      <<<<50, 50, 151, 151>>,   9000,   <<95, 100>>>>,
      <<<<50, 50, 151, 151>>,   500,    <<95, 100>>>>,
      <<<<50, 50, 151, 151>>,   9000,   <<90, 100>>>>,
      <<<<160, 160, 251, 251>>, 90000,  <<95, 100>>>>,
      <<<<120, 0, 60, 100>>,    9000,   <<95, 100>>>>,
      <<<<0, 0, 100, 100>>,     -4,     <<99, 100>>>>,
      <<<<0, 0, 100, 100>>,     131072, <<95, 100>>>> }

ModelCandidates ==
    { [segmentation |-> s, bbox |-> v[1], area |-> v[2], predicted_iou |-> v[3]] :
        s \in Segmentations, v \in ModelValues }

Init ==
    /\ pc = "imread"
    /\ \E im \in Images : decoded = im[1] /\ resize_width = im[2]
    /\ \E s \in Segmentations : heap \in Lists(OfKind(ModelCandidates, s), MaxRaw)
    /\ produced = heap
    /\ generated = Ids(Len(heap))
    /\ masks = <<>>
    /\ copy_ = <<>> /\ i = 0 /\ tail = <<>> /\ j = 0
    /\ intersection_threshold = <<1, 2>>
    /\ lower_size_threshold = <<0, 1>>
    /\ upper_size_threshold = <<0, 1>>
    /\ confidence_threshold = <<9, 10>>
    /\ image = <<0, 0>> /\ width = 0 /\ height = 0 /\ new_height = 0
    /\ json_masks = <<>> /\ n = 0 /\ output = ""

Next ==
    \/ Imread \/ ImutilsResize \/ Cv2Resize \/ Generate \/ AreaBounds \/ FilterSeg
    \/ CallRemoveOverlaps \/ Snapshot \/ OuterStep \/ Compare \/ InnerDone \/ OuterDone
    \/ Extract \/ Remap \/ PrintAndReturn

Spec == Init /\ [][Next]_vars

-----------------------------------------------------------------------------
(* Properties of a run of predict (checked under Spec).                    *)

Raised == pc \in {"UnboundLocalError", "ZeroDivisionError"}
Finished == pc = "returned" \/ Raised

\* the positions of predict before filter_segmentation has returned
BeforeFiltered ==
    {"imread", "imutils.resize", "cv2.resize", "generate", "area bounds",
     "filter_segmentation"}

\* area < 0, or a max corner below the min corner
Malformed(d) == d.area < 0 \/ d.bbox[3] < d.bbox[1] \/ d.bbox[4] < d.bbox[2]

\* floor(x * to / from) on both axes
Rescaled(bbox, fromSize, toSize) ==
    <<(bbox[1] * toSize[1]) \div fromSize[1], (bbox[2] * toSize[2]) \div fromSize[2],
      (bbox[3] * toSize[1]) \div fromSize[1], (bbox[4] * toSize[2]) \div fromSize[2]>>

\* C3: every emitted bbox is the surviving bbox scaled, with floor, from the size of
\* the processed image (after the second resize) to the size of the image as decoded.
C3_OriginalSpace ==
    pc = "returned" =>
        \A id \in Range(json_masks) :
            heap[id].bbox = Rescaled(produced[id].bbox, image, decoded)

\* C4: predict never raises, and what it returns is the encoding of one box per
\* candidate that survived deduplication ("[]" when none survived).
C4_AlwaysReturns ==
    /\ ~Raised
    /\ pc = "returned" =>
          /\ Len(json_masks) = Len(masks)
          /\ output = json_dumps([p \in 1..Len(masks) |-> heap[masks[p]].bbox])

\* C8: a malformed candidate is gone once the filter stage is reached: it is in no
\* list that is deduplicated and in no output.
C8_MalformedDropped ==
    \A id \in DOMAIN produced :
        Malformed(produced[id]) =>
            /\ pc \notin BeforeFiltered => id \notin Range(masks)
            /\ id \notin Range(json_masks)

\* C9: at the end of a run every candidate still has the bbox, area and confidence
\* the model produced.
C9_NoCandidateMutated == Finished => heap = produced

\* C9 as amended: area and confidence of every candidate stay as produced, and so
\* does every bbox until the remap loop; the remap loop overwrites the bbox of each
\* surviving candidate with its remapped value and leaves the other candidates' alone.
C9_OnlySurvivorBoxesOverwritten ==
    /\ n = 0 => heap = produced
    /\ \A id \in DOMAIN heap :
          /\ heap[id].area = produced[id].area
          /\ heap[id].predicted_iou = produced[id].predicted_iou
          /\ heap[id].segmentation = produced[id].segmentation
          /\ Finished =>
                heap[id].bbox = IF id \in Range(json_masks)
                                THEN Scaled(produced[id].bbox)
                                ELSE produced[id].bbox

\* a run that returned, with a survivor whose bbox was overwritten and a candidate
\* that passed the filter and was removed as an overlap, whose bbox was not
C9_Witness ==
    /\ pc = "returned"
    /\ \E a \in Range(json_masks) : heap[a].bbox # produced[a].bbox
    /\ \E b \in Range(generated) \ Range(json_masks) :
          /\ Keep(produced[b], lower_size_threshold, upper_size_threshold,
                  confidence_threshold)
          /\ heap[b].bbox = produced[b].bbox

====
